---------------------------- MODULE Spec2Model ----------------------------
(***************************************************************************)
(* A model of src/assignment5.py: the class CSP (constraint store, AC-3    *)
(* propagation `inference`/`revise`, and the recursive `backtrack`).       *)
(*                                                                         *)
(* Python lists are mutable objects, so the model keeps a heap of list     *)
(* objects: `heap[a]` is the content of the list at address a, and a       *)
(* dictionary variable -> list (self.domains, an assignment) is a function *)
(* variable -> address.  copy.deepcopy allocates fresh lists; list.remove  *)
(* changes a list in place.                                                *)
(*                                                                         *)
(* Input restrictions of the model (all inside what the program accepts):  *)
(*   - the variables are named A, B, C and declared once, in that order;   *)
(*   - values are the integers 1..MaxVal and a list holds no value twice;  *)
(*   - a declared domain is a run lo..hi of consecutive values: the range  *)
(*     that create_sudoku_csp declares, a part of it, or one fixed value;  *)
(*   - no constraint is declared between a variable and itself;            *)
(*   - the filter functions are "neq" (the lambda of the source), "lt" and *)
(*     "gt".                                                               *)
(*   - the dictionaries of one run iterate their keys in one common order, *)
(*     which may be any order of the names (`keyorder`).                   *)
(***************************************************************************)
EXTENDS Integers, Sequences, FiniteSets, TLC

VARIABLES
    variables,        \* self.variables: the list of declared names
    domains,          \* self.domains: name -> address of its list of legal values
    constraints,      \* self.constraints: name -> (name -> set of legal pairs)
    number_calls,     \* self.number_calls
    number_failures,  \* self.number_failures
    heap,             \* the list objects: address -> sequence of values
    keyorder,         \* the iteration order of the dictionaries' keys
    calls,            \* history: the builder's own add_constraint_one_way calls
    pc,               \* where the program is
    search,           \* backtracking_search's local `assignment`
    stack,            \* the active calls of backtrack, outermost first
    queue,            \* the `queue` of the running inference call
    prepass,          \* what the inference call of line 87 returned
    result,           \* what backtracking_search returned (or raised)
    rev               \* the last direct call of revise: arguments and outcome

vars == <<variables, domains, constraints, number_calls, number_failures,
          heap, keyorder, calls, pc, search, stack, queue, prepass, result, rev>>

-----------------------------------------------------------------------------
(* Bounds and input sets *)

MaxVal == 3

MaxBuildCalls == 2

Names == <<"A", "B", "C">>

NameSet == {Names[k] : k \in 1..Len(Names)}

Values == 1..MaxVal

Preds == {"neq", "lt", "gt"}

Interval(lo, hi) == [k \in 1..(hi - lo + 1) |-> lo + k - 1]

ValueRange == Interval(1, MaxVal)

DeclDomains == {Interval(lo, hi) : lo \in Values, hi \in Values} \ {<<>>}

\* The domains that create_sudoku_csp declares (lines 249-252).
SudokuDomains == {ValueRange} \cup {<<v>> : v \in Values}

None == "None"

-----------------------------------------------------------------------------
(* Generic helpers for sequences and dictionaries *)

EmptyMap == [n \in {} |-> 0]

Put(d, k, v) == [n \in (DOMAIN d) \cup {k} |-> IF n = k THEN v ELSE d[n]]

Range(s) == {s[k] : k \in 1..Len(s)}

RECURSIVE SelectKeys(_, _)
SelectKeys(order, keys) ==
    IF order = <<>> THEN <<>>
    ELSE IF Head(order) \in keys
         THEN <<Head(order)>> \o SelectKeys(Tail(order), keys)
         ELSE SelectKeys(Tail(order), keys)

RECURSIVE ListRemove(_, _)
ListRemove(s, v) ==
    IF s = <<>> THEN <<>>
    ELSE IF Head(s) = v THEN Tail(s)
         ELSE <<Head(s)>> \o ListRemove(Tail(s), v)

Perms(S) == {p \in [1..Cardinality(S) -> S] : \A a, b \in DOMAIN p : p[a] = p[b] => a = b}

-----------------------------------------------------------------------------
(* The constraint store *)

Holds(f, x, y) ==
    CASE f = "neq" -> x /= y
      [] f = "lt"  -> x < y
      [] f = "gt"  -> x > y

Swapped(f) ==
    CASE f = "neq" -> "neq"
      [] f = "lt"  -> "gt"
      [] f = "gt"  -> "lt"

get_all_possible_pairs(a, b) == Range(a) \X Range(b)

OneWayEntry(cons, h, doms, i, j, f) ==
    LET start == IF j \in DOMAIN cons[i] THEN cons[i][j]
                 ELSE get_all_possible_pairs(h[doms[i]], h[doms[j]])
    IN  {p \in start : Holds(f, p[1], p[2])}

add_constraint_one_way(cons, h, doms, i, j, f) ==
    [cons EXCEPT ![i] = Put(cons[i], j, OneWayEntry(cons, h, doms, i, j, f))]

RECURSIVE ApplyOneWay(_, _, _, _)
ApplyOneWay(cons, h, doms, todo) ==
    IF todo = {} THEN cons
    ELSE LET c == CHOOSE x \in todo : TRUE
         IN  ApplyOneWay(add_constraint_one_way(cons, h, doms, c[1], c[2], c[3]),
                         h, doms, todo \ {c})

\* A faulty variant: the pairs of itertools.combinations, each in one order only.
AllDiffCallsOneOrder(vs) ==
    {c \in vs \X vs \X {"neq"} :
        \E a, b \in 1..Len(Names) : a < b /\ c[1] = Names[a] /\ c[2] = Names[b]}

AllDiffCalls(vs) == {<<i, j, "neq">> : i \in vs, j \in vs} \ {<<i, i, "neq">> : i \in vs}

add_all_different_constraint(cons, h, doms, vs) ==
    ApplyOneWay(cons, h, doms, AllDiffCalls(vs))

get_all_arcs ==
    LET outer == SelectKeys(keyorder, DOMAIN constraints)
        RECURSIVE Arcs(_)
        Arcs(os) ==
            IF os = <<>> THEN <<>>
            ELSE LET i  == Head(os)
                     js == SelectKeys(keyorder, DOMAIN constraints[i])
                 IN  [k \in 1..Len(js) |-> <<i, js[k]>>] \o Arcs(Tail(os))
    IN  Arcs(outer)

get_all_neighboring_arcs(var) ==
    LET is == SelectKeys(keyorder, DOMAIN constraints[var])
    IN  [k \in 1..Len(is) |-> <<is[k], var>>]

Declared == Range(variables)

AddVariable(name, domain) ==
    /\ pc = "build"
    /\ Len(variables) < Len(Names)
    /\ name = Names[Len(variables) + 1]
    /\ variables' = Append(variables, name)
    /\ heap' = Append(heap, domain)
    /\ domains' = Put(domains, name, Len(heap) + 1)
    /\ constraints' = Put(constraints, name, EmptyMap)
    /\ UNCHANGED <<number_calls, number_failures, keyorder, calls, pc, search,
                   stack, queue, prepass, result, rev>>

AddConstraintOneWay(i, j, f) ==
    /\ pc = "build"
    /\ i \in Declared /\ j \in Declared /\ i /= j
    /\ Cardinality(calls) < MaxBuildCalls
    /\ constraints' = add_constraint_one_way(constraints, heap, domains, i, j, f)
    /\ calls' = calls \cup {<<i, j, f>>}
    /\ UNCHANGED <<variables, domains, number_calls, number_failures, heap, keyorder,
                   pc, search, stack, queue, prepass, result, rev>>

AddAllDifferentConstraint(vs) ==
    /\ pc = "build"
    /\ vs \subseteq Declared /\ Cardinality(vs) >= 2
    /\ constraints' = add_all_different_constraint(constraints, heap, domains, vs)
    /\ UNCHANGED <<variables, domains, number_calls, number_failures, heap, keyorder,
                   calls, pc, search, stack, queue, prepass, result, rev>>

-----------------------------------------------------------------------------
(* Assignment states *)

Deref(h, d) == [n \in DOMAIN d |-> h[d[n]]]

NullAssignment == [n \in NameSet |-> 0]

NoResult == [kind |-> "none", value |-> NullAssignment]

NoRev == [i |-> None, j |-> None, before |-> <<>>, other |-> <<>>,
          after |-> <<>>, ret |-> FALSE, exc |-> "none"]


DictKeys(d) == SelectKeys(Names, DOMAIN d)

KeyIndex(d, n) == CHOOSE k \in 1..Len(DictKeys(d)) : DictKeys(d)[k] = n

\* A faulty variant: copy.copy, a new dictionary over the same lists.
ShallowCopy(h, d) == [heap |-> h, dict |-> d]

DeepCopy(h, d) ==
    [heap |-> h \o [k \in 1..Len(DictKeys(d)) |-> h[d[DictKeys(d)[k]]]],
     dict |-> [n \in DOMAIN d |-> Len(h) + KeyIndex(d, n)]]

-----------------------------------------------------------------------------
(* AC-3: revise and inference *)

\* A faulty variant: a value is kept only if every value of j goes with it.
SupportedByAll(v, dj, cij) == \A k \in 1..Len(dj) : <<v, dj[k]>> \in cij

Supported(v, dj, cij) == \E k \in 1..Len(dj) : <<v, dj[k]>> \in cij

\* The loops of lines 205-218: `idx` is the position of the list iterator in
\* the list that the loop body itself shortens; `revised` is the flag of the
\* last iteration run so far.
RECURSIVE ReviseLoop(_, _, _, _, _)
ReviseLoop(di, dj, cij, idx, revised) ==
    IF idx > Len(di) THEN [dom |-> di, ret |-> revised]
    ELSE IF Supported(di[idx], dj, cij)
         THEN ReviseLoop(di, dj, cij, idx + 1, FALSE)
         ELSE ReviseLoop(ListRemove(di, di[idx]), dj, cij, idx + 1, TRUE)

\* revise(assignment, i, j) on the lists di = assignment[i], dj = assignment[j]:
\* the new content of assignment[i], the value returned, the exception raised.
revise(cons, di, dj, i, j) ==
    IF di = <<>>
    THEN [dom |-> di, ret |-> FALSE, exc |-> "UnboundLocalError"]
    ELSE IF dj /= <<>> /\ j \notin DOMAIN cons[i]
         THEN [dom |-> di, ret |-> FALSE, exc |-> "KeyError"]
         ELSE LET cij == IF j \in DOMAIN cons[i] THEN cons[i][j] ELSE {}
                  r   == ReviseLoop(di, dj, cij, 1, FALSE)
              IN  [dom |-> r.dom, ret |-> r.ret, exc |-> "none"]

Top == stack[Len(stack)]

SetTop(f) == [stack EXCEPT ![Len(stack)] = f]

Running == IF pc = "prepass" THEN search ELSE Top.cur

NewFrame(asg) == [assignment |-> asg, Xi |-> None, idx |-> 0,
                  cur |-> NullAssignment, base |-> 0]

\* What the caller of inference does with the value b it returns, the heap
\* being h: line 87 drops it, line 137 recurses or goes on to the next value.
InferenceReturns(b, h) ==
    /\ queue' = <<>>
    /\ IF pc = "prepass"
       THEN /\ prepass' = IF b THEN "True" ELSE "False"
            /\ pc' = "prepassed"
            /\ heap' = h
            /\ stack' = stack
       ELSE /\ prepass' = prepass
            /\ IF b
               THEN /\ stack' = Append(stack, NewFrame(Top.cur))
                    /\ pc' = "backtrack"
                    /\ heap' = h
               ELSE /\ stack' = stack
                    /\ pc' = "loop"
                    /\ heap' = SubSeq(h, 1, Top.base)

Raises(exc) ==
    /\ pc' = "done"
    /\ result' = [kind |-> exc, value |-> NullAssignment]

\* One iteration of the while loop of inference (lines 175-189).
InferenceStep ==
    /\ pc \in {"prepass", "infer"}
    /\ queue /= <<>>
    /\ LET Xi == Head(queue)[1]
           Xj == Head(queue)[2]
           r  == revise(constraints, heap[Running[Xi]], heap[Running[Xj]], Xi, Xj)
           h  == [heap EXCEPT ![Running[Xi]] = r.dom]
       IN  IF r.exc /= "none"
           THEN /\ Raises(r.exc)
                /\ queue' = Tail(queue)
                /\ UNCHANGED <<heap, stack, prepass>>
           ELSE IF r.ret /\ Len(r.dom) = 0
                THEN InferenceReturns(FALSE, h) /\ UNCHANGED result
                ELSE /\ heap' = h
                     /\ queue' = IF r.ret
                                 THEN Tail(queue) \o get_all_neighboring_arcs(Xi)
                                 ELSE Tail(queue)
                     /\ UNCHANGED <<pc, stack, prepass, result>>
    /\ UNCHANGED <<variables, domains, constraints, number_calls, number_failures,
                   keyorder, calls, search, rev>>

\* The while loop of inference ends on an empty queue (lines 175, 192).
InferenceSucceeds ==
    /\ pc \in {"prepass", "infer"}
    /\ queue = <<>>
    /\ InferenceReturns(TRUE, heap)
    /\ UNCHANGED <<variables, domains, constraints, number_calls, number_failures,
                   keyorder, calls, search, result, rev>>

-----------------------------------------------------------------------------
(* Backtracking search *)

select_unassigned_variable(asg) ==
    LET open == {k \in 1..Len(variables) : Len(asg[variables[k]]) > 1}
    IN  IF open = {} THEN None
        ELSE variables[CHOOSE k \in open : \A m \in open : k <= m]

\* Lines 83-87, up to the call of inference.
BacktrackingSearch ==
    /\ pc = "start"
    /\ heap' = DeepCopy(heap, domains).heap
    /\ search' = DeepCopy(heap, domains).dict
    /\ queue' = get_all_arcs
    /\ pc' = "prepass"
    /\ UNCHANGED <<variables, domains, constraints, number_calls, number_failures,
                   keyorder, calls, stack, prepass, result, rev>>

\* Line 90: backtrack is called whatever inference returned.
CallBacktrack ==
    /\ pc = "prepassed"
    /\ stack' = <<NewFrame(search)>>
    /\ pc' = "backtrack"
    /\ UNCHANGED <<variables, domains, constraints, number_calls, number_failures,
                   heap, keyorder, calls, search, queue, prepass, result, rev>>

\* A call of backtrack returns: to backtracking_search, which returns the
\* same value (line 90), or to the backtrack that called it.
Pop == SubSeq(stack, 1, Len(stack) - 1)

\* Lines 118-125: the entry of backtrack, which returns a complete assignment.
Backtrack ==
    /\ pc = "backtrack"
    /\ number_calls' = number_calls + 1
    /\ LET Xi == select_unassigned_variable(Deref(heap, Top.assignment))
       IN  IF Xi = None
           THEN /\ result' = [kind |-> "assignment", value |-> Top.assignment]
                /\ pc' = IF Len(stack) = 1 THEN "done" ELSE "return"
                /\ stack' = Pop
           ELSE /\ stack' = SetTop([Top EXCEPT !.Xi = Xi, !.idx = 0])
                /\ pc' = "loop"
                /\ result' = result
    /\ UNCHANGED <<variables, domains, constraints, number_failures, heap, keyorder,
                   calls, search, queue, prepass, rev>>

\* Lines 128-137: the next value of the for loop, up to the call of inference.
TryValue ==
    /\ pc = "loop"
    /\ Top.idx < Len(heap[Top.assignment[Top.Xi]])
    /\ LET value == heap[Top.assignment[Top.Xi]][Top.idx + 1]
           copy  == DeepCopy(heap, Top.assignment)
       IN  /\ heap' = Append(copy.heap, <<value>>)
           /\ stack' = SetTop([Top EXCEPT !.idx = Top.idx + 1,
                                          !.cur = Put(copy.dict, Top.Xi, Len(copy.heap) + 1),
                                          !.base = Len(heap)])
    /\ queue' = get_all_neighboring_arcs(Top.Xi)
    /\ pc' = "infer"
    /\ UNCHANGED <<variables, domains, constraints, number_calls, number_failures,
                   keyorder, calls, search, prepass, result, rev>>

\* Lines 143-144: the recursive call returned an assignment, which is not
\* False: this call returns it as well.
ReturnSolution ==
    /\ pc = "return"
    /\ stack' = Pop
    /\ pc' = IF Len(stack) = 1 THEN "done" ELSE "return"
    /\ UNCHANGED <<variables, domains, constraints, number_calls, number_failures,
                   heap, keyorder, calls, search, queue, prepass, result, rev>>

\* Lines 146-148: the for loop is over; the caller, if any, tries its next value.
BacktrackFails ==
    /\ pc = "loop"
    /\ Top.idx >= Len(heap[Top.assignment[Top.Xi]])
    /\ number_failures' = number_failures + 1
    /\ stack' = Pop
    /\ IF Len(stack) = 1
       THEN /\ result' = [kind |-> "failure", value |-> NullAssignment]
            /\ pc' = "done"
            /\ heap' = heap
       ELSE /\ result' = result
            /\ pc' = "loop"
            /\ heap' = SubSeq(heap, 1, stack[Len(stack) - 1].base)
    /\ UNCHANGED <<variables, domains, constraints, number_calls, keyorder, calls,
                   search, queue, prepass, rev>>

-----------------------------------------------------------------------------
(* The specifications *)

\* The store as CSP() leaves it (lines 7-20), before any builder call.
InitBuild ==
    /\ variables = <<>>
    /\ domains = EmptyMap
    /\ constraints = EmptyMap
    /\ number_calls = 0
    /\ number_failures = 0
    /\ heap = <<>>
    /\ keyorder = Names
    /\ calls = {}
    /\ pc = "build"
    /\ search = NullAssignment
    /\ stack = <<>>
    /\ queue = <<>>
    /\ prepass = "none"
    /\ result = NoResult
    /\ rev = NoRev

NextBuild ==
    \/ \E d \in SudokuDomains : AddVariable(Names[Len(variables) + 1], d)
    \/ \E i, j \in Declared, f \in Preds : AddConstraintOneWay(i, j, f)
    \/ \E vs \in SUBSET Declared : AddAllDifferentConstraint(vs)

SpecBuild == InitBuild /\ [][NextBuild]_vars

\* What a problem builder declares between two variables: nothing, or a
\* constraint and its mirror (lines 236-237).
EdgeOptions(i, j) ==
    {{}} \cup {{<<i, j, f>>, <<j, i, Swapped(f)>>} : f \in Preds}

\* A builder that forgot the mirror call.
OneWayOnly(i, j) == {{<<i, j, "neq">>}}

BuiltCalls == {e1 \cup e2 \cup e3 : e1 \in EdgeOptions("A", "B") \cup OneWayOnly("A", "B"),
                                    e2 \in EdgeOptions("A", "C"),
                                    e3 \in EdgeOptions("B", "C")}

DeclaredDomains == [n \in NameSet |-> KeyIndex(NullAssignment, n)]

EmptyConstraints == [n \in NameSet |-> EmptyMap]

\* A store as a problem builder leaves it: the three variables declared, then
\* the constraints added.
Init ==
    /\ variables = Names
    /\ domains = DeclaredDomains
    /\ heap \in [1..Len(Names) -> DeclDomains]
    /\ calls \in BuiltCalls
    /\ constraints = ApplyOneWay(EmptyConstraints, heap, domains, calls)
    /\ keyorder \in Perms(NameSet)
    /\ number_calls = 0
    /\ number_failures = 0
    /\ pc = "start"
    /\ search = NullAssignment
    /\ stack = <<>>
    /\ queue = <<>>
    /\ prepass = "none"
    /\ result = NoResult
    /\ rev = NoRev

Next ==
    \/ BacktrackingSearch
    \/ InferenceStep
    \/ InferenceSucceeds
    \/ CallBacktrack
    \/ Backtrack
    \/ TryValue
    \/ ReturnSolution
    \/ BacktrackFails

Spec == Init /\ [][Next]_vars

FairSpec == Spec /\ WF_vars(Next)

-----------------------------------------------------------------------------
(* revise called on its own, on any assignment state *)

RECURSIVE Keep(_, _, _)
Keep(s, k, I) ==
    IF k > Len(s) THEN <<>>
    ELSE (IF k \in I THEN <<s[k]>> ELSE <<>>) \o Keep(s, k + 1, I)

SubSeqs(s) == {Keep(s, 1, I) : I \in SUBSET (1..Len(s))}

\* Two constrained variables with any declared order of the values, and an
\* assignment state that search may have pruned to any sub-list.
InitRevise ==
    /\ variables = Names
    /\ domains = DeclaredDomains
    /\ \E da, db \in Perms(Values) : \E wa \in SubSeqs(da), wb \in SubSeqs(db) :
          heap = <<da, db, ValueRange, wa, wb, ValueRange>>
    /\ search = [n \in NameSet |-> Len(Names) + KeyIndex(NullAssignment, n)]
    /\ calls \in EdgeOptions("A", "B") \cup OneWayOnly("A", "B")
    /\ constraints = ApplyOneWay(EmptyConstraints, heap, domains, calls)
    /\ keyorder = Names
    /\ number_calls = 0
    /\ number_failures = 0
    /\ pc = "revise"
    /\ stack = <<>>
    /\ queue = <<>>
    /\ prepass = "none"
    /\ result = NoResult
    /\ rev = NoRev

\* revise(assignment, i, j), lines 194-220.
ReviseCall(i, j) ==
    /\ pc = "revise"
    /\ i /= j
    /\ LET r == revise(constraints, heap[search[i]], heap[search[j]], i, j)
       IN  /\ heap' = [heap EXCEPT ![search[i]] = r.dom]
           /\ rev' = [i |-> i, j |-> j, before |-> heap[search[i]],
                      other |-> heap[search[j]], after |-> r.dom,
                      ret |-> r.ret, exc |-> r.exc]
    /\ pc' = "revised"
    /\ UNCHANGED <<variables, domains, constraints, number_calls, number_failures,
                   keyorder, calls, search, stack, queue, prepass, result>>

NextRevise == \E i, j \in {"A", "B"} : ReviseCall(i, j)

SpecRevise == InitRevise /\ [][NextRevise]_vars

-----------------------------------------------------------------------------
(* Notions the properties are stated with *)

Symmetric(cons) ==
    \A i, j \in DOMAIN cons :
        /\ j \in DOMAIN cons[i] <=> i \in DOMAIN cons[j]
        /\ j \in DOMAIN cons[i] =>
              \A p \in cons[i][j] : <<p[2], p[1]>> \in cons[j][i]

MirrorClosed(cs) == \A c \in cs : <<c[2], c[1], Swapped(c[3])>> \in cs

\* One value per variable, from its declared domain, every stored pair legal.
Satisfiable ==
    \E a \in [NameSet -> Values] :
        /\ \A n \in NameSet : a[n] \in Range(heap[domains[n]])
        /\ \A i \in NameSet : \A j \in DOMAIN constraints[i] :
              <<a[i], a[j]>> \in constraints[i][j]

Decided(asg) == \A n \in DOMAIN asg : Len(asg[n]) = 1

\* The value a consumer reads for every variable (solution[name][0], line
\* 275) exists and every stored pair of them is legal.
ChosenValuesLegal(asg) ==
    \A i \in DOMAIN asg : \A j \in DOMAIN constraints[i] :
        /\ Len(asg[i]) >= 1
        /\ Len(asg[j]) >= 1
        /\ <<asg[i][1], asg[j][1]>> \in constraints[i][j]

ArcConsistent(asg) ==
    \A i \in DOMAIN asg : \A j \in DOMAIN constraints[i] :
        \A k \in 1..Len(asg[i]) : Supported(asg[i][k], asg[j], constraints[i][j])

SupportedPart(di, dj, cij) == SelectSeq(di, LAMBDA v : Supported(v, dj, cij))

Returned == Deref(heap, result.value)

InInference == pc \in {"prepass", "infer"}

-----------------------------------------------------------------------------
(* The claims *)

\* C1 (soundness): when the store is symmetric and backtracking_search
\* returns something other than the failure signal, every variable of a
\* stored constraint has a chosen value and each stored pair (i, j) has the
\* pair of chosen values among its legal pairs.
C1_ReturnedPairsLegal ==
    (pc = "done" /\ result.kind = "assignment" /\ Symmetric(constraints))
        => ChosenValuesLegal(Returned)

\* C2: when the arc-consistency pre-pass of backtracking_search reports
\* failure, backtrack is never invoked (the call counter stays 0) and
\* backtracking_search returns the failure signal.
C2_FailedPrepassStopsSearch ==
    prepass = "False" =>
        /\ number_calls = 0
        /\ stack = <<>>
        /\ pc = "done" => result.kind = "failure"

\* C3: every result of backtracking_search other than the failure signal maps
\* every declared variable to a list of exactly one value.
C3_ResultDecided ==
    (pc = "done" /\ result.kind = "assignment") => Decided(Returned)

\* C4 (completeness): on a symmetric store that some choice of one value per
\* variable satisfies, backtracking_search does not raise and what it returns
\* is a solution: never the failure signal, every list of length one, every
\* stored pair legal.
C4_SatisfiableIsSolved ==
    pc = "done" =>
        \/ /\ result.kind = "assignment"
           /\ Decided(Returned)
           /\ ChosenValuesLegal(Returned)
        \/ ~Symmetric(constraints)
        \/ ~Satisfiable

\* C4's case: on a satisfiable symmetric store, a call of backtrack whose
\* earlier candidate value was given up gets a solution from a later one.
C4_Witness ==
    /\ pc = "return"
    /\ Top.idx >= 2
    /\ Symmetric(constraints) /\ Satisfiable
    /\ Decided(Returned) /\ ChosenValuesLegal(Returned)

\* C5 as stated: after any sequence of builder calls the store is symmetric.
C5_StoreSymmetric == Symmetric(constraints)

\* C5 as amended: the store is symmetric after any sequence of
\* add_all_different_constraint calls and of add_constraint_one_way calls in
\* which every call (i, j, f) is matched by the call (j, i, f with its
\* arguments swapped).
C5_MirroredStoreSymmetric ==
    MirrorClosed(calls) => Symmetric(constraints)

\* C5's case: mirrored one-way calls with an order predicate, and an entry
\* that only an all-different call has made.
C5_Witness ==
    /\ calls /= {}
    /\ MirrorClosed(calls)
    /\ \E c \in calls : c[3] = "lt"
    /\ \E i \in Declared : \E j \in DOMAIN constraints[i] :
          \A c \in calls : <<c[1], c[2]>> /= <<i, j>>

\* C6: when inference seeded with all arcs returns success, every value left
\* in a list has a supporting value in the list of every constrained
\* neighbour (so a second run would remove nothing).
C6_SuccessIsArcConsistent ==
    (pc = "prepassed" /\ prepass = "True") => ArcConsistent(Deref(heap, search))

\* C7 (isolation): no step of the program changes the lists of self.domains,
\* nor the lists of the assignment of any active call of backtrack: trying a
\* value and propagating it on the clone leaves the state that the next
\* values are tried from as it was.
C7_ParentsUntouched ==
    [][/\ Deref(heap', domains) = Deref(heap, domains)
       /\ \A k \in 1..Len(stack) :
             k <= Len(stack') =>
                /\ stack'[k].assignment = stack[k].assignment
                /\ Deref(heap', stack[k].assignment) = Deref(heap, stack[k].assignment)
      ]_vars

\* C7's case: a later candidate value is being propagated on its clone, which
\* has lost values of another variable that the caller's state still holds.
C7_Witness ==
    /\ pc = "infer"
    /\ Top.idx >= 2
    /\ \E n \in NameSet \ {Top.Xi} :
          Len(heap[Top.cur[n]]) < Len(heap[Top.assignment[n]])

\* C8: after revise(state, i, j), the list of i is the ordered sub-list of
\* its previous values that have a supporting value in the list of j.
C8_ReviseKeepsSupported ==
    (pc = "revised" /\ rev.j \in DOMAIN constraints[rev.i]) =>
        rev.after = SupportedPart(rev.before, rev.other, constraints[rev.i][rev.j])

\* C9: revise(state, i, j) returns a boolean, also on an empty list of i, and
\* returns true exactly when it removed a value.
C9_ReviseReturnsRemoved ==
    (pc = "revised" /\ rev.j \in DOMAIN constraints[rev.i]) =>
        /\ rev.exc = "none"
        /\ rev.ret <=> (rev.after /= rev.before)

\* C10: every call of inference ends by returning success or failure to its
\* caller.
C10_InferenceReturns ==
    InInference ~> (pc \in {"prepassed", "backtrack", "loop"})

\* Every call of inference ends, by a return or by an exception.
InferenceEnds == InInference ~> ~InInference

\* Once every list of a returned assignment holds one value, the chosen
\* values satisfy a symmetric store.
DecidedResultLegal ==
    (pc = "done" /\ result.kind = "assignment" /\ Symmetric(constraints) /\ Decided(Returned))
        => ChosenValuesLegal(Returned)

=============================================================================
